---- MODULE Spec2Model ----
(***************************************************************************)
(* Model of dl.py: a sequential tool that walks a tree of .html/.css       *)
(* documents, downloads externally hosted assets once into assets/ or      *)
(* assets/fonts/, and rewrites the references in place.                    *)
(*                                                                         *)
(* Text is a sequence of atoms.  Every atom is a literal piece of text     *)
(* (the concatenation of a document's atoms is the document), chosen so    *)
(* that the regular expressions of dl.py can only start or end a match at  *)
(* an atom boundary: quotes, '>' and ')' are atoms of their own, "http"    *)
(* occurs only at the start of a URL atom, a recognised extension only at  *)
(* the end of a URL atom or of a local path atom, and inside the value of  *)
(* a srcset attribute a space only at the start of an atom or in ", ".     *)
(***************************************************************************)
EXTENDS Naturals, Sequences, FiniteSets, TLC

\* Largest number of files under the project root.
NumDocs == 2

\* Largest number of times the network answers a URL otherwise than it
\* answered that URL the time before.
MaxChanges == 1

----------------------------------------------------------------------------
(* Atoms *)

A1 == "https://cdn.test/a.png"
A2 == "https://img.test/a%20.png"
B  == "https://cdn.test/b.png"
P  == "https://cdn.test/d.pdf"
W  == "https://cdn.test/f.woff2"
\* The start of a URL whose path goes on with another URL.
X  == "https://cdn.test/x/"
DQ == "\""
SQ == "'"

\* The atoms that begin with http:// or https://.
HttpUrls == {A1, A2, B, P, W, X}

None == "None"
NoFile == "-"

project_root == "."
assets_folder == "assets"
fonts_folder == "assets/fonts"

image_extensions == {".svg", ".jpg", ".jpeg", ".png", ".gif", ".webp", ".ico", ".bmp", ".avif"}
font_extensions == {".woff", ".woff2"}
pdf_extensions == {".pdf"}
video_extensions == {".webm"}

\* os.path.join(target_folder, file_name), expressed relative to
\* project_root as os.path.relpath(local_path, project_root) returns it.
Join(folder, file_name) ==
    IF file_name = "" THEN folder
    ELSE IF folder = fonts_folder
    THEN CASE file_name = "a.png"   -> "assets/fonts/a.png"
           [] file_name = "b.png"   -> "assets/fonts/b.png"
           [] file_name = "d.pdf"   -> "assets/fonts/d.pdf"
           [] file_name = "f.woff2" -> "assets/fonts/f.woff2"
    ELSE CASE file_name = "a.png"   -> "assets/a.png"
           [] file_name = "b.png"   -> "assets/b.png"
           [] file_name = "d.pdf"   -> "assets/d.pdf"
           [] file_name = "f.woff2" -> "assets/f.woff2"

\* The local paths a run can write into a document.
LocalPaths == {"assets/a.png", "assets/b.png", "assets/d.pdf", "assets/fonts/f.woff2"}

\* os.path.basename(urlparse(url).path) of a text ending in this atom,
\* before any sanitising.
RawName(atom) ==
    CASE atom = A1 -> "a.png"
      [] atom = A2 -> "a%20.png"
      [] atom = B  -> "b.png"
      [] atom = P  -> "d.pdf"
      [] atom = W  -> "f.woff2"
      [] atom = X  -> ""
      [] atom = "assets/a.png" -> "a.png"
      [] atom = "assets/b.png" -> "b.png"
      [] atom = "assets/d.pdf" -> "d.pdf"
      [] atom = "assets/fonts/f.woff2" -> "f.woff2"
      [] OTHER -> atom

\* The file name download_file derives: '%20' removed, then every
\* character outside [A-Za-z0-9._-] removed.
Sanitize(name) ==
    CASE name = "a%20.png" -> "a.png"
      [] OTHER -> name

FileName(atom) == Sanitize(RawName(atom))

\* os.path.splitext(urlparse(url).path)[1].lower() of a text ending in
\* this atom ("" when the atom ends in no extension).
Ext(atom) ==
    CASE atom \in {A1, A2, B, "assets/a.png", "assets/b.png"} -> ".png"
      [] atom \in {P, "assets/d.pdf"} -> ".pdf"
      [] atom \in {W, "assets/fonts/f.woff2"} -> ".woff2"
      [] OTHER -> ""

\* Atoms made of white space only.
WhiteSpace == {" "}

\* Atoms that begin with a space (white space, and the descriptors of a
\* srcset entry).
SpaceLed == WhiteSpace \union {" 1x", " 2x"}
Comma == ", "

----------------------------------------------------------------------------
(* The file tree *)

Templates ==
    [f \in {"index.html", "about.html", "hero.html", "MIX.HTML", "nest.html",
            "style.css", "notes.txt"} |->
       CASE f = "index.html" -> <<"<img ", "src=", DQ, A1, DQ, ">">>
         [] f = "about.html" -> <<"<img ", "src=", DQ, A2, DQ, ">">>
         [] f = "hero.html"  ->
              <<"<img ", "srcset=", DQ, A1, " 1x", Comma, B, " 2x", DQ, ">">>
         [] f = "MIX.HTML"   ->
              <<"<img ", "src=", DQ, A1, DQ, " ", "srcset", " ", "=", " ", DQ,
                " ", A1, " 1x", DQ, ">",
                "<a ", "href=", DQ, P, DQ, ">">>
         [] f = "nest.html"  ->
              <<"<img ", "src=", DQ, A1, DQ, ">", "<img ", "src=", DQ, X, A1, DQ, ">">>
         [] f = "style.css"  ->
              <<".a{src:", "url(", SQ, W, SQ, ")", "}">>
         [] f = "notes.txt"  -> <<"see ", A1>>]

\* file.lower() ends with this suffix.
LowerSuffix(file) ==
    CASE file \in {"index.html", "about.html", "hero.html", "MIX.HTML", "nest.html"}
           -> ".html"
      [] file = "style.css" -> ".css"
      [] OTHER -> ""

\* The patterns process_files applies to a file, in order.
PatternsFor(file) ==
    IF LowerSuffix(file) = ".html"
    THEN <<"html_img_pattern", "html_pdf_pattern", "html_video_pattern">>
    ELSE IF LowerSuffix(file) = ".css" THEN <<"css_asset_pattern">>
    ELSE <<>>

----------------------------------------------------------------------------
(* Regular expressions *)

PatternExts(pattern) ==
    CASE pattern = "html_img_pattern"   -> image_extensions
      [] pattern = "html_pdf_pattern"   -> pdf_extensions
      [] pattern = "html_video_pattern" -> video_extensions
      [] pattern = "css_asset_pattern"  -> image_extensions \union font_extensions

\* The atoms the pattern's character class excludes: [^"'>] or [^"')].
Terminators(pattern) ==
    IF pattern = "css_asset_pattern" THEN {DQ, SQ, ")"} ELSE {DQ, SQ, ">"}

\* Last index of the run of atoms from i that the character class accepts.
RECURSIVE RunEnd(_, _, _)
RunEnd(s, i, pattern) ==
    IF i < Len(s) /\ s[i + 1] \notin Terminators(pattern)
    THEN RunEnd(s, i + 1, pattern)
    ELSE i

Max(S) == CHOOSE x \in S : \A y \in S : y <= x

\* Whether ["']?\) matches right after index j.
ClosesUrl(s, j) ==
    \/ j + 1 <= Len(s) /\ s[j + 1] = ")"
    \/ j + 2 <= Len(s) /\ s[j + 1] \in {DQ, SQ} /\ s[j + 2] = ")"

\* Whether url\(["']? matches right before index i.
OpensUrl(s, i) ==
    \/ i > 1 /\ s[i - 1] = "url("
    \/ i > 2 /\ s[i - 1] \in {DQ, SQ} /\ s[i - 2] = "url("

\* Index where the pattern's match that starts at i ends, 0 when there is
\* none.  The quantifier is greedy: the match runs to the last atom of the
\* run that ends in one of the pattern's extensions.
MatchEnd(s, i, pattern) ==
    IF s[i] \notin HttpUrls THEN 0
    ELSE LET e == RunEnd(s, i, pattern)
             ends == {j \in i..e : Ext(s[j]) \in PatternExts(pattern)}
         IN IF pattern = "css_asset_pattern"
            THEN IF OpensUrl(s, i) /\ e \in ends /\ ClosesUrl(s, e) THEN e ELSE 0
            ELSE IF ends = {} THEN 0 ELSE Max(ends)

\* pattern.findall(content): the matched URLs, left to right; scan[i] is
\* what the scan finds from index i on.
FindAll(s, pattern) ==
    LET scan[i \in 1..(Len(s) + 1)] ==
            IF i > Len(s) THEN <<>>
            ELSE IF MatchEnd(s, i, pattern) > 0
                 THEN <<SubSeq(s, i, MatchEnd(s, i, pattern))>>
                      \o scan[MatchEnd(s, i, pattern) + 1]
                 ELSE scan[i + 1]
    IN scan[1]

\* Index of the first DQ at or after i, 0 when there is none.
NextQuote(s, i) ==
    LET quote[j \in 1..(Len(s) + 1)] ==
            IF j > Len(s) THEN 0
            ELSE IF s[j] = DQ THEN j
            ELSE quote[j + 1]
    IN quote[i]

\* Index of the first atom at or after i that is not white space,
\* Len(s) + 1 when there is none: what \s* consumes from i.
SkipSpace(s, i) ==
    LET skip[j \in 1..(Len(s) + 1)] ==
            IF j <= Len(s) /\ s[j] \in WhiteSpace THEN skip[j + 1] ELSE j
    IN skip[i]

\* Whether atom i of s is the atom a.
IsAtom(s, i, a) == i <= Len(s) /\ s[i] = a

\* Index of the first atom of the value when srcset\s*=\s*" matches from
\* atom i, 0 when it does not.  The attribute name comes with its '=' in
\* one atom, or alone with white space and an atom '=' after it.
ValueStart(s, i) ==
    IF IsAtom(s, i, "srcset=")
    THEN IF IsAtom(s, SkipSpace(s, i + 1), DQ) THEN SkipSpace(s, i + 1) + 1 ELSE 0
    ELSE IF /\ IsAtom(s, i, "srcset")
            /\ IsAtom(s, SkipSpace(s, i + 1), "=")
            /\ IsAtom(s, SkipSpace(s, SkipSpace(s, i + 1) + 1), DQ)
         THEN SkipSpace(s, SkipSpace(s, i + 1) + 1) + 1
         ELSE 0

\* Whether srcset_pattern matches from atom i: the name, the '=', the
\* opening quote, a value of at least one atom and the closing quote.
SrcsetValueAt(s, i) ==
    ValueStart(s, i) > 0 /\ NextQuote(s, ValueStart(s, i)) > ValueStart(s, i)

\* srcset_pattern.findall(content): the spans <<first, last>> of the
\* values matched, left to right; spans[i] is what the scan finds from
\* atom i on, a match being followed by the scan after its closing quote.
SrcsetSpans(s) ==
    LET spans[i \in 1..(Len(s) + 1)] ==
            IF i > Len(s) THEN <<>>
            ELSE IF SrcsetValueAt(s, i)
                 THEN <<(<<ValueStart(s, i), NextQuote(s, ValueStart(s, i)) - 1>>)>>
                      \o spans[NextQuote(s, ValueStart(s, i)) + 1]
                 ELSE spans[i + 1]
    IN spans[1]

\* Index of the first comma in i..last, last + 1 when there is none.
PartEnd(s, i, last) ==
    LET part[j \in 1..(last + 1)] ==
            IF j > last \/ s[j] = Comma THEN j
            ELSE part[j + 1]
    IN part[i]

\* Index after the word that starts at i: the first atom in i..last that
\* is a comma or begins with a space, last + 1 when there is none.
WordEnd(s, i, last) ==
    LET word[j \in 1..(last + 1)] ==
            IF j > last \/ s[j] = Comma \/ s[j] \in SpaceLed THEN j
            ELSE word[j + 1]
    IN word[i]

\* Index of the first atom in i..last that is not white space, last + 1
\* when there is none: where part.strip() begins, the part starting at i.
StripLeft(s, i, last) ==
    LET strip[j \in 1..(last + 1)] ==
            IF j <= last /\ s[j] \in WhiteSpace THEN strip[j + 1] ELSE j
    IN strip[i]

\* The URLs of the srcset value s[first..last]: match.split(','), then of
\* each part part.strip().split(' ')[0], kept if it starts with 'http'.
\* urls[i] is what the parts from the one starting at i yield.  Inside a
\* value a space stands at the start of an atom.
ValueUrls(s, first, last) ==
    LET urls[i \in first..(last + 2)] ==
            IF i > last THEN <<>>
            ELSE (IF /\ StripLeft(s, i, last) <= last
                     /\ s[StripLeft(s, i, last)] \in HttpUrls
                  THEN <<SubSeq(s, StripLeft(s, i, last),
                                WordEnd(s, StripLeft(s, i, last), last) - 1)>>
                  ELSE <<>>)
                 \o urls[PartEnd(s, i, last) + 1]
    IN urls[first]

\* The URLs replace_urls_in_srcset visits, in the order it visits them.
SrcsetUrls(s) ==
    LET from[k \in 1..(Len(SrcsetSpans(s)) + 1)] ==
            IF k > Len(SrcsetSpans(s)) THEN <<>>
            ELSE ValueUrls(s, SrcsetSpans(s)[k][1], SrcsetSpans(s)[k][2]) \o from[k + 1]
    IN from[1]

\* content.replace(old, new): every occurrence, left to right.
RECURSIVE Replace(_, _, _)
Replace(s, old, new) ==
    IF Len(s) < Len(old) THEN s
    ELSE IF SubSeq(s, 1, Len(old)) = old
         THEN new \o Replace(SubSeq(s, Len(old) + 1, Len(s)), old, new)
         ELSE <<Head(s)>> \o Replace(Tail(s), old, new)

----------------------------------------------------------------------------
(* The downloader *)

\* What requests.get and the streaming of the body can do:
\*   ok          status 200, the whole body arrives
\*   status404   a status other than 200
\*   conn_exc    requests.get raises a RequestException
\*   stream_exc  status 200, iter_content raises a RequestException after
\*               the destination was opened and a first chunk written
Outcomes == {"ok", "status404", "conn_exc", "stream_exc"}

\* download_file with the existence check left out.
download_file_no_exists_check(file_url, target_folder, files, outcome) ==
    LET local_path == Join(target_folder, FileName(file_url[Len(file_url)]))
        written(done) == [p \in DOMAIN files \union {local_path} |->
                            IF p = local_path THEN [body |-> file_url, complete |-> done]
                            ELSE files[p]]
    IN CASE outcome = "ok" ->
              [ret |-> local_path, files |-> written(TRUE), get |-> TRUE, path |-> local_path]
         [] outcome = "stream_exc" ->
              [ret |-> None, files |-> written(FALSE), get |-> TRUE, path |-> local_path]
         [] OTHER ->
              [ret |-> None, files |-> files, get |-> TRUE, path |-> local_path]

\* download_file with the existence check made on the unsanitised name.
download_file_checks_raw_name(file_url, target_folder, files, outcome) ==
    LET raw == RawName(file_url[Len(file_url)])
        local_path == Join(target_folder, FileName(file_url[Len(file_url)]))
    IN IF raw = Sanitize(raw) /\ local_path \in DOMAIN files
       THEN [ret |-> local_path, files |-> files, get |-> FALSE, path |-> local_path]
       ELSE download_file_no_exists_check(file_url, target_folder, files, outcome)

\* download_file(file_url, target_folder) on the asset files `files`, when
\* the network answers a GET with `outcome`.  ret is the returned relative
\* path or None, files the asset files afterwards, get whether a GET was
\* issued, path the destination.  The name is that of the URL's last atom:
\* the basename is the text after the last '/', and a URL ends in a URL
\* atom or a local path atom.  With an empty name the destination is the
\* target folder itself, which exists.
download_file(file_url, target_folder, files, outcome) ==
    LET file_name == FileName(file_url[Len(file_url)])
        local_path == Join(target_folder, file_name)
        written(done) == [p \in DOMAIN files \union {local_path} |->
                            IF p = local_path THEN [body |-> file_url, complete |-> done]
                            ELSE files[p]]
    IN IF local_path \in DOMAIN files \/ local_path = target_folder
       THEN [ret |-> local_path, files |-> files, get |-> FALSE, path |-> local_path]
       ELSE CASE outcome = "ok" ->
                   [ret |-> local_path, files |-> written(TRUE), get |-> TRUE,
                    path |-> local_path]
              [] outcome = "stream_exc" ->
                   [ret |-> None, files |-> written(FALSE), get |-> TRUE,
                    path |-> local_path]
              [] OTHER ->
                   [ret |-> None, files |-> files, get |-> TRUE, path |-> local_path]

\* folder = fonts_folder if ext in font_extensions else assets_folder
FolderFor(url) ==
    IF Ext(url[Len(url)]) \in font_extensions THEN fonts_folder ELSE assets_folder

----------------------------------------------------------------------------
(* State *)

VARIABLES
    docs,      \* the source files on disk: file name -> text
    fs,        \* the asset files on disk: relative path -> [body, complete]
    fixedNet,  \* whether the network is a fixed assignment of responses
               \* to URLs; if not, a URL can be answered anew
    resp,      \* URL -> the network's latest answer, for the URLs requested
    changes,   \* how many GETs the network answered otherwise than the GET
               \* of the same URL before them
    getLog,    \* the HTTP GETs issued so far, in order
    pc,        \* where the program is
    todo,      \* the files os.walk has not yielded yet in this run
    cur,       \* file_path of the current replace_references call
    passes,    \* the patterns still to apply to cur
    content,   \* replace_references' content
    queue,     \* the srcset URLs still to visit
    pending,   \* the members of set(matches) still to visit
    modified,  \* replace_references' modified
    mode,      \* "first", then "rerun" (run again) or "replay" (see Restart)
    docs0,     \* the source files before the first run
    final1     \* the disk and the GETs at the end of the first run

vars == <<docs, fs, fixedNet, resp, changes, getLog, pc, todo, cur, passes,
          content, queue, pending, modified, mode, docs0, final1>>

EmptyFn == [x \in {} |-> x]

\* The trees: any choice of at most NumDocs of the files.
Trees ==
    {[f \in S |-> Templates[f]] :
        S \in {T \in SUBSET (DOMAIN Templates) : T # {} /\ Cardinality(T) <= NumDocs}}

\* The state before the first run, the network being a fixed assignment
\* of responses to URLs (fixed) or not.
Start(fixed) ==
    /\ docs \in Trees
    /\ docs0 = docs
    /\ fixedNet = fixed
    /\ fs = EmptyFn
    /\ resp = EmptyFn
    /\ changes = 0
    /\ getLog = <<>>
    /\ pc = "walk"
    /\ todo = DOMAIN docs
    /\ cur = NoFile
    /\ passes = <<>>
    /\ content = <<>>
    /\ queue = <<>>
    /\ pending = {}
    /\ modified = FALSE
    /\ mode = "first"
    /\ final1 = [docs |-> EmptyFn, fs |-> EmptyFn, gets |-> <<>>]

\* requests.get asks the network anew at every call.
Init == Start(FALSE)

\* The same, against a fixed assignment of responses to URLs.
InitFixed == Start(TRUE)

\* What the network can answer to a GET of url: anything, or what it
\* answered to that URL the time before when the assignment is fixed or
\* the network has changed its answers MaxChanges times.
Answers(url) ==
    IF url \in DOMAIN resp /\ (fixedNet \/ changes >= MaxChanges)
    THEN {resp[url]}
    ELSE Outcomes

\* The effect of one download_file call on fs, resp, changes and getLog.
Fetch(url, r, outcome) ==
    /\ fs' = r.files
    /\ resp' = IF r.get
               THEN [u \in DOMAIN resp \union {url} |->
                       IF u = url THEN outcome ELSE resp[u]]
               ELSE resp
    /\ changes' = IF r.get /\ url \in DOMAIN resp /\ resp[url] # outcome
                  THEN changes + 1
                  ELSE changes
    /\ getLog' = IF r.get
                 THEN Append(getLog, [url |-> url, path |-> r.path,
                                      outcome |-> outcome, mode |-> mode])
                 ELSE getLog

----------------------------------------------------------------------------
(* Operations *)

\* process_files: os.walk yields the next file, in any order; a file that
\* is neither .html nor .css is passed over.
Walk ==
    /\ pc = "walk"
    /\ \E file \in todo :
         /\ todo' = todo \ {file}
         /\ IF PatternsFor(file) = <<>>
            THEN UNCHANGED <<cur, passes, pc>>
            ELSE /\ cur' = file
                 /\ passes' = PatternsFor(file)
                 /\ pc' = "call"
    /\ UNCHANGED <<docs, fs, resp, getLog, content, queue, pending, modified,
                   mode, docs0, final1, fixedNet, changes>>

\* replace_references: reads the file; replace_urls_in_srcset: findall.
ReadFile ==
    /\ pc = "call"
    /\ content' = docs[cur]
    /\ queue' = SrcsetUrls(docs[cur])
    /\ pc' = "srcset"
    /\ UNCHANGED <<docs, fs, resp, getLog, todo, cur, passes, pending, modified,
                   mode, docs0, final1, fixedNet, changes>>

\* replace_urls_in_srcset: one URL of one srcset value.
replace_urls_in_srcset ==
    /\ pc = "srcset"
    /\ queue # <<>>
    /\ LET url == Head(queue)
       IN \E outcome \in Answers(url) :
            LET r == download_file(url, FolderFor(url), fs, outcome)
            IN /\ Fetch(url, r, outcome)
               /\ content' = IF r.ret # None
                             THEN Replace(content, url, <<r.ret>>)
                             ELSE content
    /\ queue' = Tail(queue)
    /\ UNCHANGED <<docs, pc, todo, cur, passes, pending, modified, mode, docs0,
                   final1, fixedNet>>

\* replace_references: modified = False; matches = pattern.findall(content).
FindMatches ==
    /\ pc = "srcset"
    /\ queue = <<>>
    /\ modified' = FALSE
    /\ pending' = {FindAll(content, Head(passes))[i] :
                     i \in DOMAIN FindAll(content, Head(passes))}
    /\ pc' = "loop"
    /\ UNCHANGED <<docs, fs, resp, getLog, todo, cur, passes, content, queue,
                   mode, docs0, final1, fixedNet, changes>>

\* replace_references' loop if download_file did not catch RequestException:
\* the exception ends the program.
LoopStepUncaught ==
    /\ pc = "loop"
    /\ \E url \in pending :
         /\ pending' = pending \ {url}
         /\ \E outcome \in Answers(url) :
              LET r == download_file(url, FolderFor(url), fs, outcome)
              IN /\ Fetch(url, r, outcome)
                 /\ content' = IF r.ret # None
                               THEN Replace(content, url, <<"/", r.ret>>)
                               ELSE content
                 /\ modified' = (modified \/ r.ret # None)
                 /\ pc' = IF r.get /\ outcome \in {"conn_exc", "stream_exc"}
                          THEN "crashed" ELSE pc
    /\ UNCHANGED <<docs, todo, cur, passes, queue, mode, docs0, final1, fixedNet>>

\* replace_references: one URL of set(matches), in the set's own order.
LoopStep ==
    /\ pc = "loop"
    /\ \E url \in pending :
         /\ pending' = pending \ {url}
         /\ \E outcome \in Answers(url) :
              LET r == download_file(url, FolderFor(url), fs, outcome)
              IN /\ Fetch(url, r, outcome)
                 /\ content' = IF r.ret # None
                               THEN Replace(content, url, <<"/", r.ret>>)
                               ELSE content
                 /\ modified' = (modified \/ r.ret # None)
    /\ UNCHANGED <<docs, pc, todo, cur, passes, queue, mode, docs0, final1, fixedNet>>

\* replace_references: writes the file if modified, and returns.
Finish ==
    /\ pc = "loop"
    /\ pending = {}
    /\ docs' = IF modified THEN [docs EXCEPT ![cur] = content] ELSE docs
    /\ passes' = Tail(passes)
    /\ pc' = IF Tail(passes) = <<>> THEN "walk" ELSE "call"
    /\ UNCHANGED <<fs, resp, getLog, todo, cur, content, queue, pending, modified,
                   mode, docs0, final1, fixedNet, changes>>

\* process_files returns: os.walk is exhausted.
EndRun ==
    /\ pc = "walk"
    /\ todo = {}
    /\ pc' = "done"
    /\ UNCHANGED <<docs, fs, resp, getLog, todo, cur, passes, content, queue,
                   pending, modified, mode, docs0, final1, fixedNet, changes>>

\* The tool is run a second time on the tree the first run left.
Rerun ==
    /\ pc = "done"
    /\ mode = "first"
    /\ mode' = "rerun"
    /\ final1' = [docs |-> docs, fs |-> fs, gets |-> getLog]
    /\ todo' = DOMAIN docs
    /\ pc' = "walk"
    /\ UNCHANGED <<docs, fs, resp, getLog, cur, passes, content, queue, pending,
                   modified, docs0, fixedNet, changes>>

\* The tool is run on a fresh copy of the original tree, against the same
\* fixed assignment of responses, os.walk and the sets being free to take
\* another order.
Restart ==
    /\ pc = "done"
    /\ fixedNet
    /\ mode = "first"
    /\ mode' = "replay"
    /\ final1' = [docs |-> docs, fs |-> fs, gets |-> getLog]
    /\ docs' = docs0
    /\ fs' = EmptyFn
    /\ getLog' = <<>>
    /\ todo' = DOMAIN docs0
    /\ pc' = "walk"
    /\ UNCHANGED <<resp, cur, passes, content, queue, pending, modified, docs0,
                   fixedNet, changes>>

process_files == Walk \/ ReadFile \/ replace_urls_in_srcset \/ FindMatches \/ LoopStep \/ Finish \/ EndRun

Next == process_files \/ Rerun

Spec == Init /\ [][Next]_vars

\* One run of the tool.  The program is sequential and never waits: a step
\* that can be taken is taken.
FairSpec == Init /\ [][process_files]_vars /\ WF_vars(process_files)

NextReplay == process_files \/ Restart

SpecReplay == InitFixed /\ [][NextReplay]_vars

----------------------------------------------------------------------------
(* Vocabulary of the properties *)

\* The GETs, by position in getLog, issued for a destination path.
GetsFor(path) == {i \in DOMAIN getLog : getLog[i].path = path}

\* Outcomes after which download_file has created no file.
NoFileOutcomes == {"status404", "conn_exc"}

\* Number of places where the text u occurs in s.
Occurrences(s, u) ==
    Cardinality({i \in 1..Len(s) : i + Len(u) - 1 <= Len(s)
                                   /\ SubSeq(s, i, i + Len(u) - 1) = u})

\* Whether position i of s lies inside the value of a srcset attribute.
InSrcsetValue(s, i) ==
    \E k \in DOMAIN SrcsetSpans(s) :
        SrcsetSpans(s)[k][1] <= i /\ i <= SrcsetSpans(s)[k][2]

\* Whether a document the walker dispatches referred to url before the first run.
Referenced(url) ==
    \E d \in DOMAIN docs0 : PatternsFor(d) # <<>> /\ Occurrences(docs0[d], <<url>>) > 0

\* Two distinct URLs, both referenced, with one sanitized name and folder.
SharedName(u1, u2) ==
    /\ u1 # u2
    /\ Join(FolderFor(<<u1>>), FileName(u1)) = Join(FolderFor(<<u2>>), FileName(u2))
    /\ Referenced(u1)
    /\ Referenced(u2)

FirstRunDone == pc = "done" /\ mode = "first"

\* A replace_references call has returned, and none has begun since:
\* content is what that call ended with, cur the file it was given.
CallReturned ==
    /\ cur # NoFile
    /\ \/ pc \in {"walk", "done"}
       \/ pc = "call" /\ Len(passes) < Len(PatternsFor(cur))

SecondRunChangedNothing ==
    docs = final1.docs /\ fs = final1.fs /\ getLog = final1.gets

NoFailureInFirstRun ==
    \A i \in DOMAIN final1.gets : final1.gets[i].outcome = "ok"

----------------------------------------------------------------------------
(* Properties *)

\* C1: a second run on the tree the first run left changes no source
\* document, creates no asset file and issues no HTTP GET.  Stated for the
\* runs in which no download failed, a failed download being fetched again
\* by the next run: when every GET of the first run returned 200 with its
\* whole body, the second run changes nothing.
C1_SecondRunIdle ==
    (mode = "rerun" /\ NoFailureInFirstRun) => SecondRunChangedNothing

\* C2: after a download_file call that issued a GET and returned failure,
\* no file exists at the destination (it did not exist before the call, or
\* no GET would have been issued).
C2_FailedDownloadLeavesNoFile ==
    (getLog # <<>> /\ getLog[Len(getLog)].outcome # "ok")
        => getLog[Len(getLog)].path \notin DOMAIN fs

\* C3: asset files are write-once: a step never removes or changes an
\* existing asset file, and a GET is issued only for a destination at which
\* no file exists.
C3_WriteOnce ==
    [][/\ \A p \in DOMAIN fs : p \in DOMAIN fs' /\ fs'[p] = fs[p]
       /\ getLog' # getLog => getLog'[Len(getLog')].path \notin DOMAIN fs]_vars

\* The file made for one URL has served a later reference to another URL
\* of the same sanitized name: that reference was rewritten with no GET.
C3_Witness ==
    /\ "about.html" \in DOMAIN docs
    /\ "assets/a.png" \in DOMAIN fs
    /\ fs["assets/a.png"].body = <<A1>>
    /\ Occurrences(docs["about.html"], <<"assets/a.png">>) > 0
    /\ \A i \in DOMAIN getLog : getLog[i].url # <<A2>>

\* C4: within one run, no URL whose download failed is fetched again.
C4_NoRetryWithinRun ==
    \A i, j \in DOMAIN getLog :
        (i < j /\ getLog[i].url = getLog[j].url /\ getLog[i].mode = getLog[j].mode)
            => getLog[i].outcome = "ok"

C6_WrittenWhenChanged == CallReturned => docs[cur] = content

\* C7: in the documents on disk, a local path outside a srcset value is
\* written with a leading '/'.
C7_SlashOutsideSrcset ==
    \A d \in DOMAIN docs :
        \A i \in DOMAIN docs[d] :
            (docs[d][i] \in LocalPaths /\ ~InSrcsetValue(docs[d], i))
                => (i > 1 /\ docs[d][i - 1] = "/")

\* C8: a run on the same tree against the same network, visiting the
\* documents and the URLs in any other order, ends with the same source
\* documents and the same asset files.
C8_OrderIndependent ==
    (mode = "replay" /\ pc = "done") => (docs = final1.docs /\ fs = final1.fs)

\* C9: a URL whose every GET returned a non-200 status occurs in every
\* document on disk as often as before the first run, and no file was made
\* from it.
C9_FailedUrlUntouched ==
    \A i \in DOMAIN getLog :
        (\A j \in DOMAIN getLog :
            getLog[j].url = getLog[i].url => getLog[j].outcome = "status404") =>
            /\ \A d \in DOMAIN docs :
                 Occurrences(docs[d], getLog[i].url) = Occurrences(docs0[d], getLog[i].url)
            /\ \A p \in DOMAIN fs : fs[p].body # getLog[i].url

FailedGet == getLog # <<>> /\ getLog[Len(getLog)].outcome # "ok"

RunComplete ==
    pc = "done" /\ todo = {} /\ passes = <<>> /\ queue = <<>> /\ pending = {}

\* C10: after a download that failed, the run goes on to its normal
\* completion, with every file visited and every reference processed.
C10_FailureIsNotFatal == FailedGet ~> RunComplete

\* A run has completed in which a GET failed and a later one succeeded.
C10_Witness ==
    /\ RunComplete
    /\ \E i, j \in DOMAIN getLog :
         /\ i < j
         /\ getLog[i].mode = getLog[j].mode
         /\ getLog[i].outcome \in NoFileOutcomes
         /\ getLog[j].outcome = "ok"

====
